---------------------------- MODULE Spec2Model ----------------------------
(***************************************************************************)
(* janky: cross-platform native-project generator.                         *)
(*                                                                         *)
(* Part I  models the Settings combinator of src/ctx.rs (merge, merge_mut  *)
(*         and their helpers) as pure operators applied to bounded layers. *)
(* Part II models main() of src/main.rs as a state machine: project load,  *)
(*         version gate, target check, file resolution, extension graph,   *)
(*         Context assembly, command dispatch and the generators.          *)
(***************************************************************************)
EXTENDS Integers, Sequences, FiniteSets, TLC

(***************************************************************************)
(* Bounds                                                                  *)
(***************************************************************************)
MaxEdits == 2       \* fields set / strings pushed over both merged layers
MaxTargets == 2     \* declared targets in a document
MaxExtends == 2     \* names in one target's extends list
MaxEdges == 2       \* names over all extends lists of a document
MaxAllow == 2       \* entries in one allow-list of a TargetFilter called on its own

(***************************************************************************)
(* Option<T>: None is <<>>, Some(v) is <<v>>.                              *)
(***************************************************************************)
None == <<>>
Some(v) == <<v>>
IsSome(o) == o # <<>>

(***************************************************************************)
(* Part I - Settings                                                       *)
(***************************************************************************)
ScalarFields ==
  {"warning_level", "warning_as_error", "optimize", "strict_aliasing",
   "omit_frame_pointer", "enable_exceptions", "enable_rtti", "c_standard",
   "cxx_standard", "link_incremental", "android_target_api_level",
   "arm_thumb_mode"}

VecFields == {"include_dirs", "defines", "undefs", "lib_dirs", "libs"}

\* Settings::default(): every Option is None, every Strings is empty.
DefaultSettings ==
  [include_dirs |-> <<>>, warning_level |-> None, warning_as_error |-> None,
   optimize |-> None, strict_aliasing |-> None, omit_frame_pointer |-> None,
   defines |-> <<>>, undefs |-> <<>>, enable_exceptions |-> None,
   enable_rtti |-> None, c_standard |-> None, cxx_standard |-> None,
   link_incremental |-> None, lib_dirs |-> <<>>, libs |-> <<>>,
   android_target_api_level |-> None, arm_thumb_mode |-> None]

\* Option::or as used by Settings::merge.
OptOrMutant(x, y) == IF IsSome(y) THEN y ELSE x
OptOr(x, y) == IF IsSome(x) THEN x ELSE y

merge_opt_mut(x, y) == IF IsSome(y) THEN y ELSE x

merge_vecs_mut(x, y) ==
  IF x = <<>>
    THEN (IF y # <<>> THEN y ELSE x)
    ELSE (IF y # <<>> THEN x \o y ELSE x)

merge_vecs(x, y) ==
  IF x = <<>> THEN y ELSE IF y = <<>> THEN x ELSE x \o y

\* Settings::merge_mut(self, o): the value of self afterwards.
merge_mut(s, o) ==
  [s EXCEPT
     !.include_dirs       = merge_vecs_mut(s.include_dirs, o.include_dirs),
     !.warning_level      = merge_opt_mut(s.warning_level, o.warning_level),
     !.warning_as_error   = merge_opt_mut(s.warning_as_error, o.warning_as_error),
     !.optimize           = merge_opt_mut(s.optimize, o.optimize),
     !.strict_aliasing    = merge_opt_mut(s.strict_aliasing, o.strict_aliasing),
     !.omit_frame_pointer = merge_opt_mut(s.omit_frame_pointer, o.omit_frame_pointer),
     !.defines            = merge_vecs_mut(s.defines, o.defines),
     !.undefs             = merge_vecs_mut(s.undefs, o.undefs),
     !.enable_exceptions  = merge_opt_mut(s.enable_exceptions, o.enable_exceptions),
     !.enable_rtti        = merge_opt_mut(s.enable_rtti, o.enable_rtti),
     !.c_standard         = merge_opt_mut(s.c_standard, o.c_standard),
     !.cxx_standard       = merge_opt_mut(s.cxx_standard, o.cxx_standard),
     !.link_incremental   = merge_opt_mut(s.link_incremental, o.link_incremental),
     !.lib_dirs           = merge_vecs_mut(s.lib_dirs, o.lib_dirs),
     !.libs               = merge_vecs_mut(s.libs, o.libs)]

\* Settings::merge(self, o): the new value.
merge(s, o) ==
  [include_dirs       |-> merge_vecs(s.include_dirs, o.include_dirs),
   warning_level      |-> OptOr(s.warning_level, o.warning_level),
   warning_as_error   |-> OptOr(s.warning_as_error, o.warning_as_error),
   optimize           |-> OptOr(s.optimize, o.optimize),
   strict_aliasing    |-> OptOr(s.strict_aliasing, o.strict_aliasing),
   omit_frame_pointer |-> OptOr(s.omit_frame_pointer, o.omit_frame_pointer),
   defines            |-> merge_vecs(s.defines, o.defines),
   undefs             |-> merge_vecs(s.undefs, o.defines),
   enable_exceptions  |-> OptOr(s.enable_exceptions, o.enable_exceptions),
   enable_rtti        |-> OptOr(s.enable_rtti, o.enable_rtti),
   c_standard         |-> OptOr(s.c_standard, o.c_standard),
   cxx_standard       |-> OptOr(s.cxx_standard, o.cxx_standard),
   link_incremental   |-> OptOr(s.link_incremental, o.link_incremental),
   lib_dirs           |-> merge_vecs(s.lib_dirs, o.lib_dirs),
   libs               |-> merge_vecs(s.libs, o.libs),
   android_target_api_level |->
     OptOr(s.android_target_api_level, o.android_target_api_level),
   arm_thumb_mode     |-> OptOr(s.arm_thumb_mode, o.arm_thumb_mode)]

(***************************************************************************)
(* Bounded input layers: Settings::default() with up to k fields set or    *)
(* strings pushed, as a parsed document can hold them.                     *)
(***************************************************************************)
ScalarValues(f) ==
  CASE f = "warning_level"            -> {3, 4}
    [] f = "optimize"                 -> {"None", "Full"}
    [] f = "c_standard"               -> {99, 11}
    [] f = "cxx_standard"             -> {11, 17}
    [] f = "android_target_api_level" -> {21, 28}
    [] OTHER                          -> {FALSE, TRUE}

StringValues == {"x", "y"}

SetScalar(s, f, v) == [s EXCEPT ![f] = Some(v)]
PushString(s, f, v) == [s EXCEPT ![f] = Append(@, v)]

OneEdit(s) ==
  {SetScalar(s, f[1], f[2]) :
     f \in UNION {{<<g, v>> : v \in ScalarValues(g)} : g \in ScalarFields}}
  \cup {PushString(s, f, v) : f \in VecFields, v \in StringValues}

RECURSIVE Layers(_)
Layers(k) ==
  IF k = 0 THEN {DefaultSettings}
  ELSE LET P == Layers(k - 1) IN P \cup UNION {OneEdit(s) : s \in P}

LayerPairs ==
  UNION {Layers(i) \X Layers(MaxEdits - i) : i \in 0..MaxEdits}

VARIABLES
  doc,        \* the configuration document on disk
  project,    \* Some(ctx::Project) once parsed
  order,      \* iteration order of the project.targets HashMap in this run
  pc,         \* position in main()
  exit_code,  \* Some(code) once the process has ended
  diag,       \* the line written to standard error by fatal()
  sources,    \* AllFiles, by target index
  resources,  \* AllFiles, by target index
  assets,     \* AllFiles, by target index
  extends,    \* ctx::Extends, by target index (indices are 0-based)
  extended,   \* inverse of extends
  ctx,        \* Some(ctx::Context) once assembled
  cmd_name,   \* the command main() dispatched to
  gi,         \* position of Gen::run in ctx.generators (0: not started)
  ran,        \* names of the generators whose run was invoked, in order
  cmake_out,  \* CMakeLists.txt files written, in order
  gradle_out, \* Gradle target builds written, in order
  vs_out,     \* Visual Studio projects and solution written
  xcode_out,  \* Xcode native targets and file groups written
  first,      \* Some(tables of an earlier run over the same document)
  target_os   \* the operating system family the tool was built for (cfg)

cvars == <<doc, project, order, sources, resources, assets, extends,
           extended, ctx>>
gvars == <<cmd_name, gi, ran, cmake_out, gradle_out, vs_out, xcode_out>>
mvars == <<doc, project, order, pc, exit_code, diag, sources, resources,
           assets, extends, extended, ctx, cmd_name, gi, ran, cmake_out,
           gradle_out, vs_out, xcode_out, first, target_os>>

VARIABLES
  call,       \* a call of a method on its own: [fn, self, arg]
  ret         \* Some(how the call ended) once it has

pvars == <<call, ret>>

VARIABLES
  primary,    \* the more specific Settings layer (self)
  fallback,   \* the less specific Settings layer (o)
  merged,     \* Some(Settings::merge(primary, fallback)) once computed
  mutated,    \* Some(primary after primary.merge_mut(fallback)) once run
  doubled     \* Some(Settings::merge(primary, primary)) once computed

svars == <<primary, fallback, merged, mutated, doubled>>

InitSettings ==
  /\ \E p \in LayerPairs : primary = p[1] /\ fallback = p[2]
  /\ merged = None
  /\ mutated = None
  /\ doubled = None

Merge ==
  /\ UNCHANGED <<mvars, pvars>>
  /\ merged = None
  /\ merged' = Some(merge(primary, fallback))
  /\ UNCHANGED <<primary, fallback, mutated, doubled>>

MergeMut ==
  /\ UNCHANGED <<mvars, pvars>>
  /\ mutated = None
  /\ mutated' = Some(merge_mut(primary, fallback))
  /\ UNCHANGED <<primary, fallback, merged, doubled>>

MergeSelf ==
  /\ UNCHANGED <<mvars, pvars>>
  /\ doubled = None
  /\ doubled' = Some(merge(primary, primary))
  /\ UNCHANGED <<primary, fallback, merged, mutated>>

NextSettings == Merge \/ MergeMut \/ MergeSelf



(***************************************************************************)
(* Part II - main(): documents, file system and derived tables             *)
(***************************************************************************)
TargetNameTable == <<"A", "B", "C", "D", "E">>   \* keys of [targets]
MissingName == "Z"                               \* a name no target has

PLATFORMS_ALL ==
  {"Windows", "Linux", "MacOS", "IOS", "TVOS", "WatchOS", "Android", "HTML5"}

SeqsUpTo(S, m) == UNION {[1..l -> S] : l \in 0..m}

Perms(n) ==
  {p \in [1..n -> 1..n] : \A i, j \in 1..n : i # j => p[i] # p[j]}

RECURSIVE Flatten(_)
Flatten(ss) == IF ss = <<>> THEN <<>> ELSE Head(ss) \o Flatten(Tail(ss))

RECURSIVE SelectSeqBy(_, _)
SelectSeqBy(s, keep) ==
  IF s = <<>> THEN <<>>
  ELSE (IF keep[1] THEN <<Head(s)>> ELSE <<>>)
         \o SelectSeqBy(Tail(s), Tail(keep))

\* The settings a target declares: include dirs, defines and libs of its
\* own plus entries that every target repeats (owner 0).
TargetSettings(i) ==
  [DefaultSettings EXCEPT
     !.include_dirs = << <<"inc", i>>, <<"external/inc", i>>, <<"inc", 0>> >>,
     !.defines      = << <<"DEF", i>>, <<"DEF", 0>> >>,
     !.libs         = << <<"lib", i>>, <<"lib", 0>> >>]

\* FileInfo records the glob walk returns for a target's source patterns:
\* a directory, a C++ file, an Objective-C++ file and a header shared by
\* every target. A path is its sequence of components.
DirNameTable == <<"d1", "d2", "d3", "d4", "d5">>

FileInfo(path, ext, is_file) ==
  [path |-> path, ext |-> ext, is_file |-> is_file]

parent(path) == SubSeq(path, 1, Len(path) - 1)

SourceFilesOf(i) ==
  << FileInfo(<<DirNameTable[i]>>, "", FALSE),
     FileInfo(<<DirNameTable[i], "a.cpp">>, "cpp", TRUE),
     FileInfo(<<DirNameTable[i], "b.mm">>, "mm", TRUE),
     FileInfo(<<"shared", "common.h">>, "h", TRUE) >>

ResourceFilesOf(i) ==
  << FileInfo(<<"res", DirNameTable[i], "data.bin">>, "bin", TRUE) >>

AssetFilesOf(i) ==
  << FileInfo(<<"assets", DirNameTable[i], "icon.png">>, "png", TRUE) >>

\* glob::glob over the tree of target i for the patterns a document may
\* carry: everything the target owns, its C++ files, the shared headers.
Glob(i, pattern) ==
  CASE pattern = "**"       -> SourceFilesOf(i)
    [] pattern = "*.cpp"    -> << FileInfo(<<DirNameTable[i], "a.cpp">>, "cpp", TRUE) >>
    [] pattern = "shared/*" -> << FileInfo(<<"shared", "common.h">>, "h", TRUE) >>
    [] OTHER                -> <<>>

\* find_files: the matches of each pattern in turn, repeats included.
find_files(i, patterns) ==
  Flatten([j \in 1..Len(patterns) |-> Glob(i, patterns[j])])

\* A declared target (ctx::Target) with the name it is keyed by.
Target(i, ext) ==
  [name        |-> TargetNameTable[i],
   decl        |-> i,
   target_type |-> IF i = 1 THEN "Application" ELSE "StaticLibrary",
   sources     |-> <<"**">>,
   extends     |-> ext,
   platforms   |-> IF i = 2 THEN <<"Linux", "Windows">> ELSE <<>>,
   assets      |-> IF i = 1 THEN Some(<<"assets", DirNameTable[i]>>) ELSE None,
   profiles    |-> IF i = 2 THEN {"Custom"} ELSE {},
   filters     |-> {},
   settings    |-> TargetSettings(i)]

ExtNames(n) == {TargetNameTable[i] : i \in 1..n} \cup {MissingName}

\* The extends lists of k targets that name targets out of N and hold at
\* most b names altogether.
RECURSIVE GraphsWithin(_, _, _)
GraphsWithin(N, k, b) ==
  IF k = 0 THEN {<<>>}
  ELSE UNION {{Append(g, s) : g \in GraphsWithin(N, k - 1, b - Len(s))} :
                s \in SeqsUpTo(ExtNames(N), IF b < MaxExtends THEN b
                                                             ELSE MaxExtends)}

Graphs(n) == GraphsWithin(n, n, MaxEdges)

MinVersions == {"", "0.1.0", "9.9.9", "junk"}

\* ctx::Project as toml::from_slice yields it; targets in declaration order.
Project(ver, g) ==
  [name              |-> "proj",
   min_janky_version |-> ver,
   platforms         |-> <<>>,
   profiles          |-> {},
   xcode             |-> [group_by_target |-> TRUE],
   targets           |-> [i \in 1..Len(g) |-> Target(i, g[i])]]

Document(wf, p) == [well_formed |-> wf, project |-> p]

Documents ==
  {Document(TRUE, Project(ver, g)) :
     ver \in MinVersions, g \in UNION {Graphs(n) : n \in 0..MaxTargets}}
  \cup {Document(FALSE, Project("", <<>>))}

NoDiag == [msg |-> "", name |-> ""]

NumTargets == Len(project[1].targets)

\* project.targets.keys() / values() / iter(): one order per HashMap.
keys == [k \in 1..NumTargets |-> project[1].targets[order[k]].name]
values == [k \in 1..NumTargets |-> project[1].targets[order[k]]]

\* Context::get_target(index), index 0-based.
get_target_declared(index) == project[1].targets[index + 1]
get_target(index) == values[index + 1]

\* Iterator::position: 0-based index of the first match.
RECURSIVE position_from(_, _, _)
position_from(s, x, k) ==
  IF k > Len(s) THEN None
  ELSE IF s[k] = x THEN Some(k - 1)
  ELSE position_from(s, x, k + 1)
position_or_zero(s, x) ==
  LET r == position_from(s, x, 1) IN IF r = None THEN Some(0) ELSE r
position_declared(s, x) ==
  LET D == [i \in 1..NumTargets |-> project[1].targets[i].name]
  IN position_from(D, x, 1)
position(s, x) == position_from(s, x, 1)

contains(s, x) == \E k \in 1..Len(s) : s[k] = x

\* main.rs:118-124 before the checks: one Option<usize> per extends name.
extends_lookup ==
  [k \in 1..NumTargets |->
     [j \in 1..Len(values[k].extends) |-> position(keys, values[k].extends[j])]]

\* The names whose lookup fails, in the order the iterators visit them.
unresolved_names ==
  Flatten([k \in 1..NumTargets |->
             SelectSeqBy(values[k].extends,
                         [j \in 1..Len(values[k].extends) |->
                            extends_lookup[k][j] = None])])

\* main.rs:126-134.
extended_reversed ==
  [k \in 1..NumTargets |->
     LET n == NumTargets IN
     SelectSeqBy([j \in 1..n |-> n - j],
                 [j \in 1..n |-> contains(values[n + 1 - j].extends, keys[k])])]
extended_without_self ==
  [k \in 1..NumTargets |->
     SelectSeqBy([j \in 1..NumTargets |-> j - 1],
                 [j \in 1..NumTargets |->
                    j # k /\ contains(values[j].extends, keys[k])])]
build_extended ==
  [k \in 1..NumTargets |->
     SelectSeqBy([j \in 1..NumTargets |-> j - 1],
                 [j \in 1..NumTargets |-> contains(values[j].extends, keys[k])])]


(***************************************************************************)
(* Version gate (main.rs is_supported)                                     *)
(***************************************************************************)
\* semver::Version::parse on the strings a document may carry.
VersionParse(v) ==
  CASE v = "0.1.0" -> Some(<<0, 1, 0>>)
    [] v = "9.9.9" -> Some(<<9, 9, 9>>)
    [] v = "0.0.9" -> Some(<<0, 0, 9>>)
    [] v = "0.1.1" -> Some(<<0, 1, 1>>)
    [] v = "0.2.0" -> Some(<<0, 2, 0>>)
    [] v = "1.0.0" -> Some(<<1, 0, 0>>)
    [] v = "0.0.0" -> Some(<<0, 0, 0>>)
    [] OTHER       -> None

\* env!("CARGO_PKG_VERSION") of the running tool.
CurrentVersion == <<0, 1, 0>>

VersionGreater(x, y) ==
  \/ x[1] > y[1]
  \/ x[1] = y[1] /\ x[2] > y[2]
  \/ x[1] = y[1] /\ x[2] = y[2] /\ x[3] > y[3]

\* is_supported with a parse error taken as "no requirement".
is_supported_lenient(min_version) ==
  LET expected == VersionParse(min_version) IN
  IF expected = None THEN TRUE
  ELSE ~VersionGreater(expected[1], CurrentVersion)

is_supported(min_version) ==
  IF min_version # ""
    THEN LET expected == VersionParse(min_version) IN
         IF expected = None THEN FALSE
         ELSE ~VersionGreater(expected[1], CurrentVersion)
    ELSE TRUE

(***************************************************************************)
(* Profile catalog (main.rs profile_names)                                 *)
(***************************************************************************)
\* Byte order of the profile names in use, as sort_unstable compares them.
NameRank(s) ==
  CASE s = "Custom"  -> 1
    [] s = "Debug"   -> 2
    [] s = "Profile" -> 3
    [] s = "Release" -> 4
    [] OTHER         -> 5

\* Settings::debug() and Settings::release() (ctx.rs:471-493).
debug ==
  [DefaultSettings EXCEPT
     !.warning_level      = Some(3),
     !.warning_as_error   = Some(FALSE),
     !.optimize           = Some("None"),
     !.strict_aliasing    = Some(FALSE),
     !.omit_frame_pointer = Some(FALSE),
     !.link_incremental   = Some(TRUE)]

release_like_debug == [debug EXCEPT !.warning_as_error = Some(TRUE)]
release ==
  [DefaultSettings EXCEPT
     !.warning_level      = Some(3),
     !.warning_as_error   = Some(TRUE),
     !.optimize           = Some("Full"),
     !.strict_aliasing    = Some(TRUE),
     !.omit_frame_pointer = Some(TRUE),
     !.link_incremental   = Some(FALSE)]

\* Profile::new: Architecture::default() and PlatformType::default() are Any.
Profile_new(settings) ==
  [architecture |-> "Any", platform_type |-> "Any", settings |-> settings]

\* Settings::defaults(): one single-variant entry per built-in profile.
defaults ==
  [n \in {"Debug", "Release"} |->
     IF n = "Debug" THEN <<Profile_new(debug)>> ELSE <<Profile_new(release)>>]

\* Settings::defaults().keys()
DefaultProfileNames == DOMAIN defaults

RECURSIVE Insert(_, _)
Insert(s, x) ==
  IF s = <<>> THEN <<x>>
  ELSE IF NameRank(x) <= NameRank(Head(s)) THEN <<x>> \o s
  ELSE <<Head(s)>> \o Insert(Tail(s), x)

RECURSIVE Sort(_)
Sort(s) == IF s = <<>> THEN <<>> ELSE Insert(Sort(Tail(s)), Head(s))

\* Vec::dedup: drops consecutive repeats.
RECURSIVE Dedup(_)
Dedup(s) ==
  IF Len(s) <= 1 THEN s
  ELSE IF s[1] = s[2] THEN Dedup(Tail(s))
  ELSE <<s[1]>> \o Dedup(Tail(s))

\* The orders in which a HashMap may yield its keys.
KeyOrders(S) ==
  {p \in [1..Cardinality(S) -> S] : \A i, j \in 1..Cardinality(S) :
                                      i # j => p[i] # p[j]}

\* main.rs:205-207 over the first k targets of the iteration order ord.
RECURSIVE target_profile_keys(_, _)
target_profile_keys(ord, k) ==
  IF k = 0 THEN {<<>>}
  ELSE {a \o b : a \in target_profile_keys(ord, k - 1),
                 b \in KeyOrders(project[1].targets[ord[k]].profiles)}

\* main.rs:201-207: the vectors v may hold before it is sorted, when the
\* targets are iterated in the order ord.
collected_profile_keys(ord) ==
  {d \o p \o t : d \in KeyOrders(DefaultProfileNames),
                  p \in KeyOrders(project[1].profiles),
                  t \in target_profile_keys(ord, Len(ord))}

\* main.rs:209-211
profile_names_unsorted(v) == Dedup(v)
profile_names_nodedup(v) == Sort(v)
profile_names(v) == Dedup(Sort(v))

(***************************************************************************)
(* main(): load, checks, file resolution, extension graph, Context         *)
(***************************************************************************)
\* No Xcode project written: no native target, no file in any group.
NoXcodeOutput ==
  [targets |-> <<>>,
   groups  |-> [main |-> <<>>, shared |-> <<>>, by_target |-> <<>>]]

\* The state main() starts a run in.
ProcessStart ==
  /\ project = None
  /\ order = <<>>
  /\ pc = "load"
  /\ exit_code = None
  /\ diag = NoDiag
  /\ sources = <<>>
  /\ resources = <<>>
  /\ assets = <<>>
  /\ extends = <<>>
  /\ extended = <<>>
  /\ ctx = None
  /\ cmd_name = ""
  /\ gi = 0
  /\ ran = <<>>
  /\ cmake_out = <<>>
  /\ gradle_out = <<>>
  /\ vs_out = [projs |-> <<>>, sln |-> None]
  /\ xcode_out = NoXcodeOutput

InitMain ==
  /\ doc \in Documents
  /\ first = None
  /\ target_os = "unix"
  /\ ProcessStart

\* fatal(): one line on standard error, std::process::exit(1).
fatal(msg, name) ==
  /\ pc' = "exit"
  /\ exit_code' = Some(1)
  /\ diag' = [msg |-> msg, name |-> name]

\* main.rs:69-83. The parsed targets land in a HashMap whose iteration
\* order is fixed for the run but not determined by the document.
LoadProject ==
  /\ UNCHANGED <<svars, pvars, first, target_os>>
  /\ pc = "load"
  /\ IF doc.well_formed
       THEN /\ project' = Some(doc.project)
            /\ order' \in Perms(Len(doc.project.targets))
            /\ pc' = "version"
            /\ UNCHANGED <<exit_code, diag>>
       ELSE /\ fatal("Failed to read the project file", "")
            /\ UNCHANGED <<project, order>>
  /\ UNCHANGED <<doc, sources, resources, assets, extends, extended, ctx>>
  /\ UNCHANGED gvars

\* main.rs:85 without the check.
CheckVersion_unchecked ==
  /\ UNCHANGED <<svars, pvars, first, target_os>>
  /\ pc = "version"
  /\ pc' = "targets"
  /\ UNCHANGED <<exit_code, diag>>
  /\ UNCHANGED <<doc, project, order, sources, resources, assets, extends,
                 extended, ctx>>
  /\ UNCHANGED gvars

\* main.rs:85
CheckVersion ==
  /\ UNCHANGED <<svars, pvars, first, target_os>>
  /\ pc = "version"
  /\ IF is_supported(project[1].min_janky_version)
       THEN pc' = "targets" /\ UNCHANGED <<exit_code, diag>>
       ELSE fatal("Min version check failed", "")
  /\ UNCHANGED <<doc, project, order, sources, resources, assets, extends,
                 extended, ctx>>
  /\ UNCHANGED gvars

\* main.rs:87 without the check.
CheckTargets_unchecked ==
  /\ UNCHANGED <<svars, pvars, first, target_os>>
  /\ pc = "targets"
  /\ pc' = "files"
  /\ UNCHANGED <<exit_code, diag>>
  /\ UNCHANGED <<doc, project, order, sources, resources, assets, extends,
                 extended, ctx>>
  /\ UNCHANGED gvars

\* main.rs:87
CheckTargets ==
  /\ UNCHANGED <<svars, pvars, first, target_os>>
  /\ pc = "targets"
  /\ IF NumTargets # 0
       THEN pc' = "files" /\ UNCHANGED <<exit_code, diag>>
       ELSE fatal("No targets in project configuration", "")
  /\ UNCHANGED <<doc, project, order, sources, resources, assets, extends,
                 extended, ctx>>
  /\ UNCHANGED gvars

\* main.rs:89-115. The glob walk either yields every target's files or
\* fails on some target (bad pattern, unreadable entry).
ResolveFiles ==
  /\ UNCHANGED <<svars, pvars, first, target_os>>
  /\ pc = "files"
  /\ \/ /\ sources' = [k \in 1..NumTargets |->
                         find_files(values[k].decl, values[k].sources)]
        /\ resources' = [k \in 1..NumTargets |->
                           ResourceFilesOf(values[k].decl)]
        /\ assets' = [k \in 1..NumTargets |->
                        IF values[k].assets = None THEN <<>>
                        ELSE AssetFilesOf(values[k].decl)]
        /\ pc' = "extends"
        /\ UNCHANGED <<exit_code, diag>>
     \/ /\ \E k \in 1..NumTargets :
             fatal("Failed to resolve files for target", keys[k])
        /\ UNCHANGED <<sources, resources, assets>>
  /\ UNCHANGED <<doc, project, order, extends, extended, ctx>>
  /\ UNCHANGED gvars

\* main.rs:118-124
ResolveExtends ==
  /\ UNCHANGED <<svars, pvars, first, target_os>>
  /\ pc = "extends"
  /\ IF unresolved_names = <<>>
       THEN /\ extends' = [k \in 1..NumTargets |->
                             [j \in 1..Len(extends_lookup[k]) |->
                                extends_lookup[k][j][1]]]
            /\ pc' = "extended"
            /\ UNCHANGED <<exit_code, diag>>
       ELSE /\ fatal("No such target to extend", unresolved_names[1])
            /\ UNCHANGED extends
  /\ UNCHANGED <<doc, project, order, sources, resources, assets, extended,
                 ctx>>
  /\ UNCHANGED gvars

\* main.rs:126-134
ResolveExtended ==
  /\ UNCHANGED <<svars, pvars, first, target_os>>
  /\ pc = "extended"
  /\ extended' = build_extended
  /\ pc' = "context"
  /\ UNCHANGED <<doc, project, order, exit_code, diag, sources, resources,
                 assets, extends, ctx>>
  /\ UNCHANGED gvars

\* main.rs:139-159
BuildContext ==
  /\ UNCHANGED <<svars, pvars, first, target_os>>
  /\ pc = "context"
  /\ \E v \in collected_profile_keys(order) :
       ctx' = Some([project   |-> project[1],
                    extends   |-> extends,
                    extended  |-> extended,
                    sources   |-> sources,
                    resources |-> resources,
                    assets    |-> assets,
                    profiles  |-> profile_names(v),
                    defaults  |-> defaults])
  /\ pc' = "command"
  /\ UNCHANGED <<doc, project, order, exit_code, diag, sources, resources,
                 assets, extends, extended>>
  /\ UNCHANGED gvars


(***************************************************************************)
(* Filters (ctx.rs TargetFilter, Target::match_file, FileInfo)             *)
(***************************************************************************)
matches_platform_strict(platforms, p) == contains(platforms, p)
matches_platform(platforms, p) == platforms = <<>> \/ contains(platforms, p)

matches_architecture(architectures, a) ==
  architectures = <<>> \/ contains(architectures, a)

\* target.filters is a set of [dir, platforms] entries, one per directory.
match_file(target, path, platform) ==
  LET hit == {e \in target.filters : e.dir = parent(path)} IN
  IF hit = {} THEN TRUE
  ELSE contains((CHOOSE e \in hit : TRUE).platforms, platform)

is_source_no_objc(file) == file.is_file /\ file.ext \notin {"m", "mm"}

\* The writers' composition: chunks[j] is what a writer emits for the j-th
\* entry of extends[i] (one loop iteration), own what it emits for target i
\* itself right after the loop.
RECURSIVE ForEach(_, _)
ForEach(chunks, k) ==
  IF k > Len(chunks) THEN <<>> ELSE chunks[k] \o ForEach(chunks, k + 1)

OwnThenExtends(chunks, own) == own \o ForEach(chunks, 1)
ExtendsThenOwn(chunks, own) == ForEach(chunks, 1) \o own

\* The indices a writer's extends loop visits for a target:
\* `for &index in &ctx.extends[index]`.
extends_deep(index) ==
  LET e == ctx[1].extends[index + 1] IN
  e \o Flatten([j \in 1..Len(e) |-> ctx[1].extends[e[j] + 1]])
extends_of(index) == ctx[1].extends[index + 1]

(***************************************************************************)
(* CMake writer (gen/cmake.rs)                                             *)
(***************************************************************************)
CMAKE_PLATFORMS == <<"Android", "HTML5", "Linux">>

cmake_write_sources(platform, index, target) ==
  LET fs == ctx[1].sources[index + 1] IN
  SelectSeqBy([j \in 1..Len(fs) |-> fs[j].path],
              [j \in 1..Len(fs) |->
                 is_source_no_objc(fs[j])
                 /\ match_file(target, fs[j].path, platform)])

cmake_write_includes(target) == target.settings.include_dirs
cmake_write_defines(target) == target.settings.defines
cmake_write_libraries(target) == target.settings.libs

\* The text blocks the writer hard-codes per platform (cmake.rs:77-102).
cmake_extra_sources(platform) ==
  IF platform = "Android"
    THEN << <<"${ANDROID_NDK}", "android_native_app_glue.c">> >> ELSE <<>>
cmake_extra_includes(platform) ==
  IF platform = "Android"
    THEN << <<"${ANDROID_NDK}/native_app_glue", -1>>,
            <<"${ANDROID_NDK}/shaderc/include", -1>> >>
    ELSE <<>>
cmake_extra_libraries(platform) ==
  CASE platform = "Android" ->
         << <<"android", -1>>, <<"log", -1>>, <<"EGL", -1>>, <<"GLESv3", -1>>,
            <<"vulkan", -1>>, <<"libshaderc.a", -1>> >>
    [] platform = "HTML5" -> << <<"openal", -1>>, <<"websocket.js", -1>> >>
    [] OTHER -> <<>>

\* write_lists_txt panics (unreachable!) on any other target type.
cmake_type_ok(target) ==
  target.target_type \in {"Application", "StaticLibrary", "SharedLibrary"}

\* cmake.rs:57-231: the lists of one CMakeLists.txt.
write_lists_txt(build) ==
  LET ext == extends_of(build.index)
      src(i) == cmake_write_sources(build.platform, i, get_target(i))
      inc(i) == cmake_write_includes(get_target(i))
      lib(i) == cmake_write_libraries(get_target(i))
      def(i) == cmake_write_defines(get_target(i))
      each(W(_)) == [j \in 1..Len(ext) |-> W(ext[j])]
  IN [name         |-> build.name,
      index        |-> build.index,
      platform     |-> build.platform,
      sources      |-> ExtendsThenOwn(each(src), src(build.index))
                         \o cmake_extra_sources(build.platform),
      include_dirs |-> ExtendsThenOwn(each(inc), inc(build.index))
                         \o cmake_extra_includes(build.platform),
      libs         |-> ExtendsThenOwn(each(lib), lib(build.index))
                         \o cmake_extra_libraries(build.platform),
      defines      |-> ExtendsThenOwn(each(def), def(build.index))]

\* cmake.rs:25-37: one Build per target and platform the target's filter
\* accepts, targets in iteration order.
cmake_builds ==
  Flatten([k \in 1..NumTargets |->
    SelectSeqBy([j \in 1..Len(CMAKE_PLATFORMS) |->
                   [name |-> keys[k], index |-> k - 1,
                    platform |-> CMAKE_PLATFORMS[j]]],
                [j \in 1..Len(CMAKE_PLATFORMS) |->
                   matches_platform(values[k].platforms, CMAKE_PLATFORMS[j])])])

\* Number of leading builds that are written before one panics.
RECURSIVE written_before_panic(_, _)
written_before_panic(builds, k) ==
  IF k > Len(builds) THEN Len(builds)
  ELSE IF ~cmake_type_ok(get_target(builds[k].index)) THEN k - 1
  ELSE written_before_panic(builds, k + 1)

(***************************************************************************)
(* Command dispatch and Gen::run (main.rs:161-163, cmd/gen.rs)             *)
(***************************************************************************)
Commands == {"build", "check", "gen", "run", "show", "test"}

\* ctx.generators is a BTreeMap: iteration in ascending key order.
GeneratorOrder == <<"cmake", "gradle", "make", "vs", "xcode">>

\* A generator returned Ok: Gen::run goes on to the next one, or returns
\* (the unix build loops over ctx.generators, the windows build runs "vs").
GenOk ==
  IF target_os = "unix" /\ gi < Len(GeneratorOrder)
    THEN /\ gi' = gi + 1
         /\ UNCHANGED <<pc, exit_code, diag>>
    ELSE /\ gi' = gi
         /\ pc' = "exit"
         /\ exit_code' = Some(0)
         /\ UNCHANGED diag

\* A generator returned Err: `?` leaves Gen::run, main() reports it.
GenErr ==
  /\ fatal("Failed to run command", cmd_name)
  /\ gi' = gi

\* A generator panicked: the process ends with the panic exit code.
GenPanic ==
  /\ pc' = "exit"
  /\ exit_code' = Some(101)
  /\ diag' = [msg |-> "panic", name |-> GeneratorOrder[gi]]
  /\ gi' = gi

RunCommand ==
  /\ UNCHANGED <<svars, pvars, first, target_os>>
  /\ pc = "command"
  /\ \E sub \in {None} \cup {Some(c) : c \in Commands} :
       /\ cmd_name' = IF sub = None THEN "gen" ELSE sub[1]
       /\ IF cmd_name' = "gen"
            THEN /\ pc' = "gen"
                 /\ gi' = IF target_os = "unix" THEN 1
                          ELSE CHOOSE k \in 1..Len(GeneratorOrder) :
                                        GeneratorOrder[k] = "vs"
                 /\ UNCHANGED <<exit_code, diag>>
            ELSE pc' = "exit" /\ exit_code' = Some(0) /\ UNCHANGED <<gi, diag>>
  /\ UNCHANGED cvars
  /\ UNCHANGED <<ran, cmake_out, gradle_out, vs_out, xcode_out>>

\* gen/cmake.rs:20-44
RunCMake ==
  /\ UNCHANGED <<svars, pvars, first, target_os>>
  /\ pc = "gen" /\ GeneratorOrder[gi] = "cmake"
  /\ ran' = Append(ran, "cmake")
  /\ IF ~\E j \in 1..Len(CMAKE_PLATFORMS) :
           matches_platform(project[1].platforms, CMAKE_PLATFORMS[j])
       THEN GenOk /\ UNCHANGED cmake_out
       ELSE LET builds == cmake_builds
                w == written_before_panic(builds, 1)
            IN \/ /\ cmake_out' = [k \in 1..w |-> write_lists_txt(builds[k])]
                  /\ IF w < Len(builds) THEN GenPanic ELSE GenOk
               \/ /\ builds # <<>>
                  /\ GenErr
                  /\ UNCHANGED cmake_out
  /\ UNCHANGED cvars
  /\ UNCHANGED <<cmd_name, gradle_out, vs_out, xcode_out>>


\* gen/gradle.rs:18-43
gradle_builds ==
  SelectSeqBy([k \in 1..NumTargets |-> [name |-> keys[k], index |-> k - 1]],
              [k \in 1..NumTargets |->
                 matches_platform(values[k].platforms, "Android")
                 /\ values[k].target_type = "Application"])

RunGradle ==
  /\ UNCHANGED <<svars, pvars, first, target_os>>
  /\ pc = "gen" /\ GeneratorOrder[gi] = "gradle"
  /\ ran' = Append(ran, "gradle")
  /\ IF ~matches_platform(project[1].platforms, "Android") \/ gradle_builds = <<>>
       THEN GenOk /\ UNCHANGED gradle_out
       ELSE \/ /\ gradle_out' = [k \in 1..Len(gradle_builds) |->
                                   [name     |-> gradle_builds[k].name,
                                    index    |-> gradle_builds[k].index,
                                    profiles |-> ctx[1].profiles]]
               /\ GenOk
            \/ GenErr /\ UNCHANGED gradle_out
  /\ UNCHANGED cvars
  /\ UNCHANGED <<cmd_name, cmake_out, vs_out, xcode_out>>

\* A generator run that writes to the Context it is handed.
RunMake_writes_ctx ==
  /\ UNCHANGED <<svars, pvars, first, target_os>>
  /\ pc = "gen" /\ GeneratorOrder[gi] = "make"
  /\ ran' = Append(ran, "make")
  /\ GenOk
  /\ ctx' = Some([ctx[1] EXCEPT !.profiles = <<>>])
  /\ UNCHANGED <<doc, project, order, sources, resources, assets, extends,
                 extended>>
  /\ UNCHANGED <<cmd_name, cmake_out, gradle_out, vs_out, xcode_out>>

\* gen/make.rs:21-23
RunMake ==
  /\ UNCHANGED <<svars, pvars, first, target_os>>
  /\ pc = "gen" /\ GeneratorOrder[gi] = "make"
  /\ ran' = Append(ran, "make")
  /\ GenOk
  /\ UNCHANGED cvars
  /\ UNCHANGED <<cmd_name, cmake_out, gradle_out, vs_out, xcode_out>>

(***************************************************************************)
(* Visual Studio writer (gen/vs.rs)                                        *)
(***************************************************************************)
starts_with_external(inc) == inc[1] = "external/inc"

vs_write_includes(target) ==
  LET d == target.settings.include_dirs IN
  SelectSeqBy(d, [j \in 1..Len(d) |-> ~starts_with_external(d[j])])

vs_write_external_includes(target) ==
  LET d == target.settings.include_dirs IN
  SelectSeqBy(d, [j \in 1..Len(d) |-> starts_with_external(d[j])])

vs_write_defines(target) == target.settings.defines
vs_write_libs(target) == target.settings.libs

get_item_group_element(target, file) ==
  IF ~match_file(target, file.path, "Windows") THEN "None"
  ELSE CASE file.ext \in {"h", "hpp"} -> "ClInclude"
         [] file.ext \in {"c", "cpp"} -> "ClCompile"
         [] file.ext = "xml"          -> "Xml"
         [] OTHER                     -> "None"

\* write_files and write_filter_files: one item per regular file.
vs_write_files(index, target) ==
  LET fs == ctx[1].sources[index + 1] IN
  SelectSeqBy([j \in 1..Len(fs) |->
                 [element |-> get_item_group_element(target, fs[j]),
                  path    |-> fs[j].path]],
              [j \in 1..Len(fs) |-> fs[j].is_file])

\* write_resources unwraps target.assets of an Application target.
vs_proj_ok(target) ==
  target.target_type = "Application" => target.assets # None

\* vs.rs:401-402: the profiles a project's configurations are written for.
vs_profiles_own(index) ==
  LET ps == ctx[1].profiles IN
  SelectSeqBy(ps, [j \in 1..Len(ps) |->
                     ps[j] \in DefaultProfileNames
                                \cup ctx[1].project.profiles
                                \cup get_target(index).profiles])
vs_profiles(index) == ctx[1].profiles

\* vs.rs:396-629 and 284-327: one vcxproj and its filters file.
write_proj(index) ==
  LET target == get_target(index)
      ext == extends_of(index)
      inc(i) == vs_write_includes(get_target(i))
      xin(i) == vs_write_external_includes(get_target(i))
      def(i) == vs_write_defines(get_target(i))
      lib(i) == vs_write_libs(get_target(i))
      fil(i) == vs_write_files(i, get_target(i))
      each(W(_)) == [j \in 1..Len(ext) |-> W(ext[j])]
  IN [name    |-> keys[index + 1],
      index   |-> index,
      configs |-> vs_profiles(index),
      settings |->
        [p \in 1..Len(vs_profiles(index)) |->
           [profile      |-> vs_profiles(index)[p],
            include_dirs |-> ExtendsThenOwn(each(inc), inc(index)),
            defines      |-> (IF vs_profiles(index)[p] = "Debug"
                                THEN << <<"_ITERATOR_DEBUG_LEVEL=1", -1>> >>
                                ELSE <<>>)
                               \o ExtendsThenOwn(each(def), def(index)),
            external_includes |-> ExtendsThenOwn(each(xin), xin(index)),
            libs         |-> << <<"OpenGL32", -1>> >>
                               \o ExtendsThenOwn(each(lib), lib(index))]],
      files        |-> ExtendsThenOwn(each(fil), fil(index)),
      filter_files |-> ExtendsThenOwn(each(fil), fil(index))]

\* vs.rs:705-777: the project list and the configuration sections.
write_sln ==
  [projects |-> <<project[1].name>> \o keys,
   configs  |-> ctx[1].profiles,
   project_configs |->
     [k \in 1..NumTargets + 1 |-> ctx[1].profiles]]

RECURSIVE projs_before_panic(_)
projs_before_panic(k) ==
  IF k > NumTargets THEN NumTargets
  ELSE IF ~vs_proj_ok(values[k]) THEN k - 1
  ELSE projs_before_panic(k + 1)

\* gen/vs.rs:22-48
RunVS ==
  /\ UNCHANGED <<svars, pvars, first, target_os>>
  /\ pc = "gen" /\ GeneratorOrder[gi] = "vs"
  /\ ran' = Append(ran, "vs")
  /\ LET w == projs_before_panic(1) IN
     \/ /\ vs_out' = [projs |-> [k \in 1..w |-> write_proj(k - 1)],
                      sln   |-> IF w < NumTargets THEN None
                                ELSE Some(write_sln)]
        /\ IF w < NumTargets THEN GenPanic ELSE GenOk
     \/ GenErr /\ UNCHANGED vs_out
  /\ UNCHANGED cvars
  /\ UNCHANGED <<cmd_name, cmake_out, gradle_out, xcode_out>>

(***************************************************************************)
(* Xcode writer (gen/xcode.rs)                                             *)
(***************************************************************************)
XCODE_PLATFORMS == <<"MacOS", "IOS", "TVOS", "WatchOS">>

\* xcode.rs:944-949: the (target, platform) pairs a native target is
\* gathered for.
xcode_pairs ==
  Flatten([k \in 1..NumTargets |->
    SelectSeqBy([j \in 1..Len(XCODE_PLATFORMS) |->
                   [name |-> keys[k], index |-> k - 1,
                    platform |-> XCODE_PLATFORMS[j]]],
                [j \in 1..Len(XCODE_PLATFORMS) |->
                   matches_platform(project[1].platforms, XCODE_PLATFORMS[j])
                   /\ matches_platform(values[k].platforms,
                                       XCODE_PLATFORMS[j])])])

\* get_target_ext and the product tables panic on these target types.
xcode_type_ok(target) ==
  target.target_type \notin {"Auto", "None", "Custom"}

\* xcode.rs:834-836: a path met again is pushed to the group when its
\* entry still counts one occurrence.
push_on_every_repeat(num_targets) == TRUE
push_on_repeat(num_targets) == num_targets = 1

\* xcode.rs:829-848: the fold over every regular file of every target's
\* source list; m maps a path to its num_targets, pushed lists the paths
\* pushed to the group so far.
RECURSIVE file_stats_from(_, _, _)
file_stats_from(files, m, pushed) ==
  IF files = <<>> THEN [stats |-> m, pushed |-> pushed]
  ELSE LET path == Head(files).path IN
       IF path \in DOMAIN m
         THEN file_stats_from(Tail(files), [m EXCEPT ![path] = @ + 1],
                IF push_on_repeat(m[path]) THEN Append(pushed, path)
                                           ELSE pushed)
         ELSE file_stats_from(Tail(files),
                [q \in DOMAIN m \cup {path} |->
                   IF q = path THEN 1 ELSE m[q]],
                pushed)

\* xcode.rs:825-850, 955-967 and 1282-1289: the file references pushed to
\* the Shared group, to each target's group, or all to the main group.
xcode_groups ==
  LET group_by_target == ctx[1].project.xcode.group_by_target
      all == Flatten(ctx[1].sources)
      fs == file_stats_from(
              SelectSeqBy(all, [j \in 1..Len(all) |-> all[j].is_file]),
              [q \in {} |-> 0], <<>>)
      own(k) ==
        LET t == ctx[1].sources[k] IN
        SelectSeqBy([j \in 1..Len(t) |-> t[j].path],
                    [j \in 1..Len(t) |->
                       t[j].is_file /\ fs.stats[t[j].path] = 1])
  IN IF group_by_target
       THEN [main      |-> <<>>,
             shared    |-> fs.pushed,
             by_target |-> [k \in 1..NumTargets |-> own(k)]]
       ELSE [main      |-> fs.pushed
                             \o Flatten([k \in 1..NumTargets |-> own(k)]),
             shared    |-> <<>>,
             by_target |-> [k \in 1..NumTargets |-> <<>>]]

\* gen/xcode.rs:100-131 and write_pbx
RunXcode ==
  /\ UNCHANGED <<svars, pvars, first, target_os>>
  /\ pc = "gen" /\ GeneratorOrder[gi] = "xcode"
  /\ ran' = Append(ran, "xcode")
  /\ \/ IF \A k \in 1..Len(xcode_pairs) :
             xcode_type_ok(get_target(xcode_pairs[k].index))
          THEN /\ xcode_out' = [targets |-> xcode_pairs,
                                 groups  |-> xcode_groups]
               /\ GenOk
          ELSE GenPanic /\ UNCHANGED xcode_out
     \/ GenErr /\ UNCHANGED xcode_out
  /\ UNCHANGED cvars
  /\ UNCHANGED <<cmd_name, cmake_out, gradle_out, vs_out>>

(***************************************************************************)
(* Specifications                                                          *)
(***************************************************************************)
vars == <<svars, mvars, pvars>>

IdleSettings ==
  /\ primary = DefaultSettings
  /\ fallback = DefaultSettings
  /\ merged = None
  /\ mutated = None
  /\ doubled = None

NoCall == [fn |-> "", self |-> <<>>, arg |-> ""]

IdleCalls ==
  /\ call = NoCall
  /\ ret = None

IdleMain ==
  /\ doc = Document(FALSE, Project("", <<>>))
  /\ project = None
  /\ order = <<>>
  /\ pc = "idle"
  /\ exit_code = None
  /\ diag = NoDiag
  /\ sources = <<>>
  /\ resources = <<>>
  /\ assets = <<>>
  /\ extends = <<>>
  /\ extended = <<>>
  /\ ctx = None
  /\ cmd_name = ""
  /\ gi = 0
  /\ ran = <<>>
  /\ cmake_out = <<>>
  /\ gradle_out = <<>>
  /\ vs_out = [projs |-> <<>>, sln |-> None]
  /\ xcode_out = NoXcodeOutput
  /\ first = None
  /\ target_os = "unix"

Next ==
  \/ LoadProject
  \/ CheckVersion
  \/ CheckTargets
  \/ ResolveFiles
  \/ ResolveExtends
  \/ ResolveExtended
  \/ BuildContext
  \/ RunCommand
  \/ RunCMake
  \/ RunGradle
  \/ RunMake
  \/ RunVS
  \/ RunXcode

Init == InitMain /\ IdleSettings /\ IdleCalls

Spec == Init /\ [][Next]_vars

InitMerge == InitSettings /\ IdleMain /\ IdleCalls

SpecSettings == InitMerge /\ [][NextSettings]_vars

(***************************************************************************)
(* A second run of the tool over the same document: a new process, hence   *)
(* a new HashMap iteration order; the first run's tables are kept aside.   *)
(***************************************************************************)
Rerun ==
  /\ pc = "exit" /\ ctx # None /\ first = None
  /\ first' = Some([profiles |-> ctx[1].profiles,
                    extends  |-> ctx[1].extends,
                    extended |-> ctx[1].extended])
  /\ project' = None
  /\ order' = <<>>
  /\ pc' = "load"
  /\ exit_code' = None
  /\ diag' = NoDiag
  /\ sources' = <<>>
  /\ resources' = <<>>
  /\ assets' = <<>>
  /\ extends' = <<>>
  /\ extended' = <<>>
  /\ ctx' = None
  /\ cmd_name' = ""
  /\ gi' = 0
  /\ ran' = <<>>
  /\ cmake_out' = <<>>
  /\ gradle_out' = <<>>
  /\ vs_out' = [projs |-> <<>>, sln |-> None]
  /\ xcode_out' = NoXcodeOutput
  /\ UNCHANGED <<doc, svars, pvars, target_os>>

NextRerun == Next \/ Rerun

SpecRerun == Init /\ [][NextRerun]_vars

(***************************************************************************)
(* The runs over the document of the worked example: targets A, B with     *)
(* extends [A], and C with extends [A, B].                                 *)
(***************************************************************************)
ExampleExtends == << <<>>, <<"A">>, <<"A", "B">> >>

InitExample ==
  /\ doc \in {Document(TRUE, Project(ver, ExampleExtends)) : ver \in MinVersions}
  /\ first = None
  /\ target_os = "unix"
  /\ ProcessStart
  /\ IdleSettings
  /\ IdleCalls

SpecExample == InitExample /\ [][Next]_vars

(***************************************************************************)
(* TargetFilter methods called on their own (ctx.rs:229-237).              *)
(***************************************************************************)
ARCHITECTURES_ALL == {"X86", "X64", "ARM", "ARM64"}

\* PlatformType::Any / Architecture::Any, the wildcard.
ANY == "Any"

TargetFilter(platforms, architectures) ==
  [platforms |-> platforms, architectures |-> architectures]

\* The filters called: allow-lists of up to MaxAllow entries.
TargetFilters ==
  {TargetFilter(ps, as) :
     ps \in SeqsUpTo({"Windows", "Linux", "Android"}, MaxAllow),
     as \in SeqsUpTo({"X64", "ARM"}, MaxAllow)}

FilterCalls ==
  {[fn |-> "matches_platform", self |-> f, arg |-> p] :
     f \in TargetFilters, p \in PLATFORMS_ALL \cup {ANY}}
  \cup {[fn |-> "matches_architecture", self |-> f, arg |-> a] :
          f \in TargetFilters, a \in ARCHITECTURES_ALL \cup {ANY}}

\* How a call ends: "returned" with its value (a panic would be "panicked").
Returned(v) == [kind |-> "returned", value |-> v]

InitCalls ==
  /\ call \in FilterCalls
  /\ ret = None
  /\ IdleMain
  /\ IdleSettings

CallMatchesPlatform ==
  /\ UNCHANGED <<mvars, svars>>
  /\ call.fn = "matches_platform" /\ ret = None
  /\ ret' = Some(Returned(matches_platform(call.self.platforms, call.arg)))
  /\ UNCHANGED call

CallMatchesArchitecture ==
  /\ UNCHANGED <<mvars, svars>>
  /\ call.fn = "matches_architecture" /\ ret = None
  /\ ret' = Some(Returned(matches_architecture(call.self.architectures,
                                                call.arg)))
  /\ UNCHANGED call

NextCalls == CallMatchesPlatform \/ CallMatchesArchitecture

SpecCalls == InitCalls /\ [][NextCalls]_vars

(***************************************************************************)
(* The runs over the documents that declare A, B and C with at most one    *)
(* extends name each: the chains A -> B -> C among them.                   *)
(***************************************************************************)
ChainNames == <<"A", "B", "C">>

ChainGraphs ==
  [1..Len(ChainNames) ->
     {<<>>} \cup {<<ChainNames[j]>> : j \in 1..Len(ChainNames)}]

InitChain ==
  /\ doc \in {Document(TRUE, Project("", g)) : g \in ChainGraphs}
  /\ first = None
  /\ target_os = "unix"
  /\ ProcessStart
  /\ IdleSettings
  /\ IdleCalls

SpecChain == InitChain /\ [][Next]_vars

(***************************************************************************)
(* The runs over the documents that declare A and B (B extends A) with a   *)
(* platform allow-list on the project and on each target.                  *)
(***************************************************************************)
FilterExtends == << <<>>, <<"A">> >>

\* `platforms = [...]` as written under [project] or under a target.
AllowLists ==
  {<<>>, <<"Linux">>, <<"Windows", "Android">>, <<"MacOS">>}

FilterProject(pp, tp) ==
  LET p == Project("", FilterExtends) IN
  [p EXCEPT !.platforms = pp,
            !.targets = [i \in 1..Len(p.targets) |->
                           [p.targets[i] EXCEPT !.platforms = tp[i]]]]

InitFilter ==
  /\ doc \in {Document(TRUE, FilterProject(pp, tp)) :
                pp \in AllowLists,
                tp \in [1..Len(FilterExtends) -> AllowLists]}
  /\ first = None
  /\ target_os = "unix"
  /\ ProcessStart
  /\ IdleSettings
  /\ IdleCalls

SpecFilter == InitFilter /\ [][Next]_vars

(***************************************************************************)
(* The runs over the documents that declare A and B (B extends A) with     *)
(* profiles declared by the project and by each target.                    *)
(***************************************************************************)
\* The names under one [profiles] table (Profiles is a HashMap).
ProfileSets ==
  {S \in SUBSET {"Custom", "Debug", "Profile"} : Cardinality(S) < 3}

ProfileProject(pp, tp) ==
  LET p == Project("", FilterExtends) IN
  [p EXCEPT !.profiles = pp,
            !.targets = [i \in 1..Len(p.targets) |->
                           [p.targets[i] EXCEPT !.profiles = tp[i]]]]

InitProfiles ==
  /\ doc \in {Document(TRUE, ProfileProject(pp, tp)) :
                pp \in ProfileSets,
                tp \in [1..Len(FilterExtends) -> ProfileSets]}
  /\ first = None
  /\ target_os = "unix"
  /\ ProcessStart
  /\ IdleSettings
  /\ IdleCalls

SpecProfiles == InitProfiles /\ [][Next]_vars



(***************************************************************************)
(* Properties of the Settings combinator (SpecSettings)                    *)
(***************************************************************************)

\* C1: every string-sequence field of merge(a, b) is a's sequence of that
\* field followed by b's sequence of that field.
C1_SequenceFieldsConcatenate ==
  merged # None =>
    \A f \in VecFields : merged[1][f] = primary[f] \o fallback[f]

\* C2: every scalar field of merge(a, b) is a's value when a's is present
\* and b's value (possibly absent) otherwise.
C2_ScalarFirstValueWins ==
  merged # None =>
    \A f \in ScalarFields :
      /\ primary[f] # None => merged[1][f] = primary[f]
      /\ primary[f] = None => merged[1][f] = fallback[f]

C2_Witness ==
  /\ merged # None
  /\ \E f \in ScalarFields :
       primary[f] # None /\ fallback[f] # None /\ primary[f] # fallback[f]

\* C3: after primary.merge_mut(fallback) every field of primary equals the
\* same field of merge(primary, fallback) computed from the original values.
C3_InPlaceAgreesWithMerge ==
  (merged # None /\ mutated # None) =>
    \A f \in ScalarFields \cup VecFields : mutated[1][f] = merged[1][f]

\* C4: merge(a, a) keeps every scalar of a and doubles every sequence of a.
C4_SelfMergeDoubles ==
  doubled # None =>
    /\ \A f \in ScalarFields : doubled[1][f] = primary[f]
    /\ \A f \in VecFields : doubled[1][f] = primary[f] \o primary[f]

(***************************************************************************)
(* Properties of the extension graph (Spec, SpecRerun)                     *)
(***************************************************************************)
DeclaredNames == {doc.project.targets[i].name : i \in 1..Len(doc.project.targets)}

\* The document of the example: A, B extends [A], C extends [A, B].
IsExampleABC ==
  /\ Len(doc.project.targets) = 3
  /\ \A i \in 1..3 : doc.project.targets[i].extends = ExampleExtends[i]

\* C5: index k denotes the k-th declared target; for the example document
\* extends is [[], [0], [0,1]] and extended is [[1,2], [2], []].
C5_IndexIsDeclarationOrder ==
  ctx # None =>
    /\ \A k \in 1..NumTargets : get_target(k - 1).decl = k
    /\ IsExampleABC =>
         /\ ctx[1].extends = << <<>>, <<0>>, <<0, 1>> >>
         /\ ctx[1].extended = << <<1, 2>>, <<2>>, <<>> >>

\* C6: a second run over the same document yields the same profile-name
\* list and the same extends and extended arrays as the first.
C6_RunsAgree ==
  (first # None /\ ctx # None) =>
    /\ ctx[1].profiles = first[1].profiles
    /\ ctx[1].extends = first[1].extends
    /\ ctx[1].extended = first[1].extended

\* C7: extends[i] has one entry per name of target i's extends list, and
\* its k-th entry is the valid index at which get_target and sources[] hold
\* the target of that name.
C7_ExtendsResolvesNames ==
  ctx # None =>
    \A i \in 0..NumTargets - 1 :
      /\ Len(ctx[1].extends[i + 1]) = Len(get_target(i).extends)
      /\ \A k \in 1..Len(ctx[1].extends[i + 1]) :
           LET e == ctx[1].extends[i + 1][k] IN
           /\ e \in 0..NumTargets - 1
           /\ get_target(e).name = get_target(i).extends[k]
           /\ ctx[1].sources[e + 1] = SourceFilesOf(get_target(e).decl)

C7_Witness ==
  /\ ctx # None
  /\ \E i \in 1..NumTargets :
       /\ Len(extends[i]) = 2
       /\ extends[i][1] > extends[i][2]
       /\ get_target(extends[i][1]).decl < get_target(extends[i][2]).decl

Ascending(s) == \A a, b \in 1..Len(s) : a < b => s[a] < s[b]

\* C8: j occurs in extended[i] iff i occurs in extends[j], i.e. iff target
\* i's name is in target j's extends list; extended[i] is ascending.
C8_ExtendedIsInverse ==
  ctx # None =>
    \A i \in 0..NumTargets - 1 :
      /\ Ascending(ctx[1].extended[i + 1])
      /\ \A j \in 0..NumTargets - 1 :
           /\ contains(ctx[1].extended[i + 1], j)
                <=> contains(ctx[1].extends[j + 1], i)
           /\ contains(ctx[1].extended[i + 1], j)
                <=> get_target(i).name \in
                      {get_target(j).extends[k] :
                         k \in 1..Len(get_target(j).extends)}
      /\ \A k \in 1..Len(ctx[1].extended[i + 1]) :
           ctx[1].extended[i + 1][k] \in 0..NumTargets - 1

C8_Witness ==
  /\ ctx # None
  /\ \E k \in 1..NumTargets : order[k] # k
  /\ \E i \in 1..NumTargets : Len(extended[i]) = 2

\* Some extends list of the document names a target that is not declared.
HasUnresolved ==
  \E i \in 1..Len(doc.project.targets) :
    \E k \in 1..Len(doc.project.targets[i].extends) :
      doc.project.targets[i].extends[k] \notin DeclaredNames

NoOutput ==
  /\ ran = <<>>
  /\ cmake_out = <<>> /\ gradle_out = <<>> /\ xcode_out = NoXcodeOutput
  /\ vs_out = [projs |-> <<>>, sln |-> None]

EntriesOf(t, field) == get_target(t).settings[field]

KeptPaths(t, keep(_)) ==
  LET fs == ctx[1].sources[t + 1] IN
  SelectSeqBy([j \in 1..Len(fs) |-> fs[j].path],
              [j \in 1..Len(fs) |-> keep(fs[j])])

\* The extended targets' parts in the order of extends[i], then target i's.
Composed(i, part(_)) ==
  Flatten([j \in 1..Len(ctx[1].extends[i + 1]) |->
             part(ctx[1].extends[i + 1][j])]) \o part(i)

Without(s, drop(_)) ==
  SelectSeqBy(s, [j \in 1..Len(s) |-> ~drop(s[j])])

HardCoded(e) == e[2] = -1
HardCodedPath(e) == e[1] = "${ANDROID_NDK}"
ExternalInclude(e) == e[1] = "external/inc"

CMakeComposes(b) ==
  LET inc(t) == EntriesOf(t, "include_dirs")
      def(t) == EntriesOf(t, "defines")
      lib(t) == EntriesOf(t, "libs")
      keep(f) == f.is_file /\ f.ext \notin {"m", "mm"}
      src(t) == KeptPaths(t, keep)
  IN /\ Without(b.include_dirs, HardCoded) = Composed(b.index, inc)
     /\ b.defines = Composed(b.index, def)
     /\ Without(b.libs, HardCoded) = Composed(b.index, lib)
     /\ Without(b.sources, HardCodedPath) = Composed(b.index, src)

VSComposes(p) ==
  LET inc(t) == Without(EntriesOf(t, "include_dirs"), ExternalInclude)
      def(t) == EntriesOf(t, "defines")
      lib(t) == EntriesOf(t, "libs")
      keep(f) == f.is_file
      src(t) == KeptPaths(t, keep)
  IN /\ \A c \in 1..Len(p.settings) :
          /\ p.settings[c].include_dirs = Composed(p.index, inc)
          /\ Without(p.settings[c].defines, HardCoded) = Composed(p.index, def)
          /\ Without(p.settings[c].libs, HardCoded) = Composed(p.index, lib)
     /\ [j \in 1..Len(p.files) |-> p.files[j].path] = Composed(p.index, src)

\* C10: every list the CMake and Visual Studio writers write for target i
\* (sources, include dirs, defines, libs) holds the entries of the targets
\* in extends[i], in the order of extends[i], followed by target i's own.
C10_WritersComposeExtendsThenOwn ==
  /\ \A k \in 1..Len(cmake_out) : CMakeComposes(cmake_out[k])
  /\ \A k \in 1..Len(vs_out.projs) : VSComposes(vs_out.projs[k])

C10_Witness ==
  /\ pc = "exit" /\ exit_code = Some(0)
  /\ \E k \in 1..Len(cmake_out) :
       LET e == ctx[1].extends[cmake_out[k].index + 1] IN
       Len(e) = 2 /\ e[1] > e[2]
  /\ \E k \in 1..Len(vs_out.projs) :
       LET e == ctx[1].extends[vs_out.projs[k].index + 1] IN
       Len(e) = 2 /\ e[1] > e[2]

(***************************************************************************)
(* Properties of one-level composition (SpecChain)                         *)
(***************************************************************************)
\* The targets (by declaration number) whose own entries occur in a list of
\* settings entries <<text, owner>>; owner 0 is shared, -1 hard-coded.
OwnersOf(list) == {list[j][2] : j \in 1..Len(list)} \ {0, -1}

\* The targets whose own directory holds a path of the list.
DirOwnersOf(paths) ==
  {d \in 1..Len(DirNameTable) :
     \E j \in 1..Len(paths) : paths[j][1] = DirNameTable[d]}

\* Target i itself and the targets its extends list names.
DirectOf(i) ==
  {get_target(i).decl}
    \cup {get_target(ctx[1].extends[i + 1][j]).decl :
            j \in 1..Len(ctx[1].extends[i + 1])}

CMakeOneLevel(b) ==
  /\ OwnersOf(b.include_dirs) = DirectOf(b.index)
  /\ OwnersOf(b.defines) = DirectOf(b.index)
  /\ OwnersOf(b.libs) = DirectOf(b.index)
  /\ DirOwnersOf(b.sources) = DirectOf(b.index)

VSOneLevel(p) ==
  /\ \A c \in 1..Len(p.settings) :
       /\ OwnersOf(p.settings[c].include_dirs) = DirectOf(p.index)
       /\ OwnersOf(p.settings[c].external_includes) = DirectOf(p.index)
       /\ OwnersOf(p.settings[c].defines) = DirectOf(p.index)
       /\ OwnersOf(p.settings[c].libs) = DirectOf(p.index)
  /\ DirOwnersOf([j \in 1..Len(p.files) |-> p.files[j].path])
       = DirectOf(p.index)
  /\ DirOwnersOf([j \in 1..Len(p.filter_files) |-> p.filter_files[j].path])
       = DirectOf(p.index)

\* C11: the files, include dirs, defines and libs written for a target hold
\* entries of that target and of the targets its own extends list names, and
\* of no other target: when A extends B, B extends C and A does not name C,
\* nothing of C is written for A.
C11_CompositionIsOneLevel ==
  /\ \A k \in 1..Len(cmake_out) : CMakeOneLevel(cmake_out[k])
  /\ \A k \in 1..Len(vs_out.projs) : VSOneLevel(vs_out.projs[k])

\* Target i extends b only, b extends c only, three distinct targets.
IsChainTop(i) ==
  LET e == ctx[1].extends[i + 1] IN
  /\ Len(e) = 1
  /\ Len(ctx[1].extends[e[1] + 1]) = 1
  /\ Cardinality({i, e[1], ctx[1].extends[e[1] + 1][1]}) = 3

C11_Witness ==
  /\ pc = "exit" /\ exit_code = Some(0)
  /\ \E k \in 1..Len(cmake_out) : IsChainTop(cmake_out[k].index)
  /\ \E k \in 1..Len(vs_out.projs) : IsChainTop(vs_out.projs[k].index)

(***************************************************************************)
(* Properties of platform filtering in the writers (SpecFilter)            *)
(***************************************************************************)
\* The project-level and the target-level filter both match the platform.
Buildable(index, platform) ==
  /\ matches_platform(ctx[1].project.platforms, platform)
  /\ matches_platform(get_target(index).platforms, platform)

\* C12: every CMakeLists.txt written is for a (target, platform) pair that
\* both the project-level and the target-level filter match.
C12_CMakeBuildsAreBuildable ==
  \A k \in 1..Len(cmake_out) :
    Buildable(cmake_out[k].index, cmake_out[k].platform)

\* C13: every Visual Studio project written, and every target entry of the
\* solution, is for a target that the project-level and the target-level
\* filter both match on Windows.
C13_VSProjectsAreBuildable ==
  /\ \A k \in 1..Len(vs_out.projs) :
       Buildable(vs_out.projs[k].index, "Windows")
  /\ vs_out.sln # None =>
       \A k \in 1..NumTargets :
         contains(vs_out.sln[1].projects, keys[k]) => Buildable(k - 1, "Windows")

(***************************************************************************)
(* Properties of the TargetFilter methods (SpecCalls)                      *)
(***************************************************************************)
InList(list, x) == x \in {list[j] : j \in 1..Len(list)}

\* C14: for a concrete platform p, matches_platform(p) returns true iff the
\* platform allow-list is empty or holds p, and for a concrete architecture
\* a, matches_architecture(a) returns true iff the architecture allow-list
\* is empty or holds a; the other allow-list has no part in the answer.
C14_FilterIsEmptyOrMember ==
  (ret # None /\ call.arg # ANY) =>
    /\ ret[1].kind = "returned"
    /\ call.fn = "matches_platform" =>
         (ret[1].value <=> (call.self.platforms = <<>>
                              \/ InList(call.self.platforms, call.arg)))
    /\ call.fn = "matches_architecture" =>
         (ret[1].value <=> (call.self.architectures = <<>>
                              \/ InList(call.self.architectures, call.arg)))

\* A platform that a full platform list omits, asked of a filter whose
\* architecture list is empty.
C14_Witness ==
  /\ ret # None /\ call.arg # ANY
  /\ call.fn = "matches_platform"
  /\ Len(call.self.platforms) = MaxAllow
  /\ ~InList(call.self.platforms, call.arg)
  /\ call.self.architectures = <<>>
  /\ ret[1].value = FALSE

\* C15: a call with the wildcard value does not return an answer.
C15_WildcardIsRejected ==
  (ret # None /\ call.arg = ANY) => ret[1].kind = "panicked"

(***************************************************************************)
(* Properties of the profile catalog (SpecProfiles)                        *)
(***************************************************************************)
\* Every profile name the document declares, with the built-in ones.
DeclaredProfiles ==
  DefaultProfileNames
    \cup doc.project.profiles
    \cup UNION {doc.project.targets[i].profiles :
                  i \in 1..Len(doc.project.targets)}

StrictlyAscending(names) ==
  \A a, b \in 1..Len(names) : a < b => NameRank(names[a]) < NameRank(names[b])

\* C16: the profile list of the Context holds exactly the built-in, the
\* project's and every target's profile names, in strictly ascending order
\* without repeats, "Debug" and "Release" among them.
C16_ProfileNamesIsSortedUnion ==
  ctx # None =>
    LET names == ctx[1].profiles IN
    /\ {names[j] : j \in 1..Len(names)} = DeclaredProfiles
    /\ StrictlyAscending(names)
    /\ \A a, b \in 1..Len(names) : a # b => names[a] # names[b]
    /\ \E j \in 1..Len(names) : names[j] = "Debug"
    /\ \E j \in 1..Len(names) : names[j] = "Release"

\* A built-in name declared again, a name two tables share, and a name
\* only the project declares.
C16_Witness ==
  /\ ctx # None
  /\ "Profile" \in doc.project.profiles
  /\ "Debug" \in doc.project.targets[1].profiles
  /\ "Custom" \in doc.project.targets[1].profiles
  /\ "Custom" \in doc.project.targets[2].profiles
  /\ "Profile" \notin doc.project.targets[2].profiles

\* Target A declares {Custom}; the project and target B declare nothing.
IsExampleCustom ==
  /\ doc.project.profiles = {}
  /\ doc.project.targets[1].profiles = {"Custom"}
  /\ doc.project.targets[2].profiles = {}

\* C17: whatever order the targets and the keys of each profile table are
\* iterated in, profile_names returns the list this run holds; for the
\* example it is [Custom, Debug, Release].
C17_ProfileNamesIgnoresOrder ==
  ctx # None =>
    /\ \A ord \in Perms(NumTargets) :
         \A v \in collected_profile_keys(ord) :
           profile_names(v) = ctx[1].profiles
    /\ IsExampleCustom => ctx[1].profiles = <<"Custom", "Debug", "Release">>

C17_Witness ==
  /\ ctx # None
  /\ IsExampleCustom
  /\ order = <<2, 1>>

\* C18: every Visual Studio project written, the solution, and every
\* project section of the solution carry the whole profile list of the
\* Context as their configurations.
C18_OneConfigurationAxis ==
  /\ \A k \in 1..Len(vs_out.projs) :
       LET p == vs_out.projs[k] IN
       /\ p.configs = ctx[1].profiles
       /\ [c \in 1..Len(p.settings) |-> p.settings[c].profile] = ctx[1].profiles
  /\ vs_out.sln # None =>
       /\ vs_out.sln[1].configs = ctx[1].profiles
       /\ Len(vs_out.sln[1].project_configs) = NumTargets + 1
       /\ \A k \in 1..NumTargets + 1 :
            vs_out.sln[1].project_configs[k] = ctx[1].profiles

\* A finished run where only target B declares "Custom".
C18_Witness ==
  /\ pc = "exit" /\ exit_code = Some(0)
  /\ vs_out.sln # None /\ Len(vs_out.projs) = 2
  /\ "Custom" \in doc.project.targets[2].profiles
  /\ "Custom" \notin doc.project.targets[1].profiles \cup doc.project.profiles
  /\ \E j \in 1..Len(vs_out.projs[1].configs) :
       vs_out.projs[1].configs[j] = "Custom"
  /\ \E j \in 1..Len(vs_out.projs[2].configs) :
       vs_out.projs[2].configs[j] = "Custom"

(***************************************************************************)
(* Properties of the built-in defaults and of the Context tables (Spec)    *)
(***************************************************************************)
\* A Settings value with exactly these six scalars present.
BuiltIn(wl, wae, opt, sa, ofp, li) ==
  [include_dirs |-> <<>>, warning_level |-> <<wl>>, warning_as_error |-> <<wae>>,
   optimize |-> <<opt>>, strict_aliasing |-> <<sa>>, omit_frame_pointer |-> <<ofp>>,
   defines |-> <<>>, undefs |-> <<>>, enable_exceptions |-> <<>>,
   enable_rtti |-> <<>>, c_standard |-> <<>>, cxx_standard |-> <<>>,
   link_incremental |-> <<li>>, lib_dirs |-> <<>>, libs |-> <<>>,
   android_target_api_level |-> <<>>, arm_thumb_mode |-> <<>>]

\* C19: the defaults of every Context are exactly Debug and Release, each
\* one variant for any architecture and any platform; Debug: warning level
\* 3, warnings not errors, no optimization, no strict aliasing, frame
\* pointer kept, incremental link; Release: warning level 3, warnings as
\* errors, full optimization, strict aliasing, frame pointer omitted, no
\* incremental link; every other field absent or empty.
C19_BuiltInDefaults ==
  ctx # None =>
    LET d == ctx[1].defaults IN
    /\ DOMAIN d = {"Debug", "Release"}
    /\ \A n \in DOMAIN d :
         /\ Len(d[n]) = 1
         /\ d[n][1].architecture = "Any"
         /\ d[n][1].platform_type = "Any"
    /\ d["Debug"][1].settings = BuiltIn(3, FALSE, "None", FALSE, FALSE, TRUE)
    /\ d["Release"][1].settings = BuiltIn(3, TRUE, "Full", TRUE, TRUE, FALSE)

C19_Witness ==
  /\ ctx # None
  /\ pc = "exit" /\ exit_code = Some(0)
  /\ ctx[1].defaults["Debug"] # ctx[1].defaults["Release"]

\* C20: in every Context, sources, resources, assets, extends and extended
\* have one entry per target, and entry i of each is the one of the target
\* that get_target(i) returns.
C20_TablesAlignWithGetTarget ==
  ctx # None =>
    /\ \A t \in {ctx[1].sources, ctx[1].resources, ctx[1].assets} :
         Len(t) = NumTargets
    /\ Len(ctx[1].extends) = NumTargets
    /\ Len(ctx[1].extended) = NumTargets
    /\ \A i \in 0..NumTargets - 1 :
         LET t == get_target(i) IN
         /\ ctx[1].sources[i + 1] = SourceFilesOf(t.decl)
         /\ ctx[1].resources[i + 1] = ResourceFilesOf(t.decl)
         /\ ctx[1].assets[i + 1] =
              (IF t.assets = None THEN <<>> ELSE AssetFilesOf(t.decl))
         /\ [k \in 1..Len(ctx[1].extends[i + 1]) |->
               get_target(ctx[1].extends[i + 1][k]).name] = t.extends
         /\ \A j \in 0..NumTargets - 1 :
              contains(ctx[1].extended[i + 1], j)
                <=> contains(get_target(j).extends, t.name)

\* A finished run whose iteration order is not the declaration order, with
\* a target that has assets, one that has none and one that extends.
C20_Witness ==
  /\ ctx # None
  /\ pc = "exit" /\ exit_code = Some(0)
  /\ NumTargets = 2 /\ order = <<2, 1>>
  /\ ctx[1].assets[1] = <<>> /\ ctx[1].assets[2] # <<>>
  /\ \E i \in 1..NumTargets : ctx[1].extends[i] # <<>>


(***************************************************************************)
(* Properties of the run as a whole (Spec)                                 *)
(***************************************************************************)
\* The steps of main() in program order.
StageOrder ==
  <<"load", "version", "targets", "files", "extends", "extended", "context",
    "command", "gen", "exit">>

StageRank(p) == CHOOSE k \in 1..Len(StageOrder) : StageOrder[k] = p

\* Every step before the command dispatch has succeeded.
AllResolved ==
  /\ doc.well_formed /\ project = Some(doc.project)
  /\ is_supported(project[1].min_janky_version)
  /\ NumTargets # 0
  /\ Len(sources) = NumTargets
  /\ Len(resources) = NumTargets
  /\ Len(assets) = NumTargets
  /\ unresolved_names = <<>>
  /\ Len(extends) = NumTargets
  /\ Len(extended) = NumTargets
  /\ ctx # None

\* How far a state's tables say the run has got: each table is filled only
\* when the ones before it are.
TablesInOrder ==
  /\ ctx # None => extended # <<>>
  /\ extended # <<>> => extends # <<>>
  /\ extends # <<>> => sources # <<>> /\ unresolved_names = <<>>
  /\ sources # <<>> => project # None /\ NumTargets # 0
                         /\ is_supported(project[1].min_janky_version)

C21_Step ==
  /\ pc' # pc =>
       \/ StageRank(pc') = StageRank(pc) + 1
       \/ pc' = "exit"
  /\ TablesInOrder'
  /\ (cmd_name' # "" \/ ran' # <<>>) => AllResolved'
  /\ (pc' = "exit" /\ StageRank(pc) < StageRank("command")) =>
       /\ exit_code' = Some(1)
       /\ cmd_name' = ""
       /\ NoOutput'

VersionStrings ==
  {"", "0.0.0", "0.0.9", "0.1.0", "0.1.1", "0.2.0", "1.0.0", "9.9.9",
   "junk", "0.1", "v0.1.0", "0.1.0.0"}

InitVersion ==
  /\ doc \in {Document(TRUE, Project(ver, << <<>> >>)) : ver \in VersionStrings}
  /\ first = None
  /\ target_os = "unix"
  /\ ProcessStart
  /\ IdleSettings
  /\ IdleCalls

SpecVersion == InitVersion /\ [][Next]_vars

\* The gate's failure condition as the text gives it.
GateFails(v) ==
  /\ v # ""
  /\ \/ VersionParse(v) = None
     \/ VersionGreater(VersionParse(v)[1], CurrentVersion)

\* C22: once the version check has run, the run has ended with exit code 1
\* and the version diagnostic exactly when min_janky_version is non-empty
\* and either is no semantic version or is greater than the running
\* version; otherwise the run went on to the targets check.
C22_VersionGate ==
  pc \notin {"load", "version"} =>
    LET v == doc.project.min_janky_version IN
    /\ GateFails(v) <=>
         /\ pc = "exit"
         /\ exit_code = Some(1)
         /\ diag.msg = "Min version check failed"
    /\ GateFails(v) => sources = <<>> /\ ctx = None /\ NoOutput
    /\ ~GateFails(v) => diag.msg # "Min version check failed"

\* The gate has stopped a document that asks for the next patch version.
C22_Witness ==
  /\ pc = "exit"
  /\ exit_code = Some(1)
  /\ diag.msg = "Min version check failed"
  /\ doc.project.min_janky_version = "0.1.1"

\* The gate has let through a document that asks for an older version.
C22_Passed ==
  /\ ran # <<>>
  /\ doc.project.min_janky_version = "0.0.9"


\* C23: a document whose targets table is empty never gets past the
\* targets check: the run ends with exit code 1 (with the no-targets
\* diagnostic when the version gate passed) before any file list, graph or
\* Context exists and before any generator runs; a Context that exists has
\* at least one target.
C23_EmptyTargetsRejected ==
  /\ (doc.well_formed /\ Len(doc.project.targets) = 0) =>
       /\ pc \in {"load", "version", "targets", "exit"}
       /\ sources = <<>> /\ resources = <<>> /\ assets = <<>>
       /\ extends = <<>> /\ extended = <<>>
       /\ ctx = None
       /\ cmd_name = ""
       /\ NoOutput
       /\ pc = "exit" =>
            /\ exit_code = Some(1)
            /\ is_supported(doc.project.min_janky_version) =>
                 diag.msg = "No targets in project configuration"
  /\ ctx # None => Len(ctx[1].project.targets) >= 1

\* A run over an empty targets table has been stopped by the targets check.
C23_Witness ==
  /\ doc.well_formed
  /\ Len(doc.project.targets) = 0
  /\ project # None
  /\ pc = "exit"
  /\ exit_code = Some(1)
  /\ diag.msg = "No targets in project configuration"


\* The Context as main() assembled it from the tables it borrows.
ContextAsBuilt(c) ==
  /\ c.project = doc.project
  /\ c.extends = extends
  /\ c.extended = extended
  /\ c.sources = sources
  /\ c.resources = resources
  /\ c.assets = assets
  /\ c.defaults = defaults
  /\ \E v \in collected_profile_keys(order) : c.profiles = profile_names(v)

C24_Step ==
  pc \in {"command", "gen"} =>
    /\ ctx # None
    /\ ContextAsBuilt(ctx[1])
    /\ ctx' = ctx
    /\ UNCHANGED <<project, order, sources, resources, assets, extends,
                   extended>>
    /\ ContextAsBuilt(ctx[1])'

\* C24: the command dispatch and every generator run leave the Context and
\* the tables it borrows (project, iteration order, file lists, extends,
\* extended, profile list, defaults) as they were when it was assembled.
C24_RunsLeaveContextUnchanged == [][C24_Step]_vars

\* All five generators have run, one after the other, on a Context with
\* two targets and a non-empty extends table, and written output.
C24_Witness ==
  /\ ran = GeneratorOrder
  /\ ctx # None
  /\ ContextAsBuilt(ctx[1])
  /\ NumTargets = 2
  /\ \E i \in 1..NumTargets : ctx[1].extends[i] # <<>>
  /\ cmake_out # <<>> /\ vs_out.projs # <<>>


(***************************************************************************)
(* The runs over the documents that declare A and B (B extends A) with     *)
(* each target's `type` key left out or set, and A's platform allow-list.  *)
(***************************************************************************)
\* ctx::TargetType; Auto is what a target without a `type` key gets.
TargetTypes ==
  {"Auto", "None", "Custom", "Console", "Application", "StaticLibrary",
   "SharedLibrary"}

TypedProject(ta, tb, pa) ==
  LET p == Project("", FilterExtends) IN
  [p EXCEPT !.targets[1].target_type = ta,
            !.targets[1].platforms = pa,
            !.targets[2].target_type = tb]

InitTypes ==
  /\ doc \in {Document(TRUE, TypedProject(ta, tb, pa)) :
                ta \in TargetTypes, tb \in TargetTypes,
                pa \in {<<>>, <<"MacOS">>}}
  /\ first = None
  /\ target_os = "unix"
  /\ ProcessStart
  /\ IdleSettings
  /\ IdleCalls

SpecTypes == InitTypes /\ [][Next]_vars

\* C25: no target of a Context has the type Auto, and no run ends in a
\* panic of the CMake or the Xcode writer.
C25_AutoIsResolved ==
  /\ ctx # None =>
       \A i \in 1..NumTargets : get_target(i - 1).target_type # "Auto"
  /\ ~(/\ pc = "exit"
       /\ exit_code = Some(101)
       /\ diag.name \in {"cmake", "xcode"})

\* The CMake writer has panicked on a target whose type was left out.
C25_CMakePanicsOnAuto ==
  /\ pc = "exit" /\ exit_code = Some(101) /\ diag.name = "cmake"
  /\ \A i \in 1..NumTargets : values[i].target_type \in {"Auto", "StaticLibrary"}

\* The Xcode writer has panicked on a target whose type was left out.
C25_XcodePanicsOnAuto ==
  /\ pc = "exit" /\ exit_code = Some(101) /\ diag.name = "xcode"
  /\ \E i \in 1..NumTargets : values[i].target_type = "Auto"


(***************************************************************************)
(* Target::match_file called on its own (ctx.rs:276-283).                  *)
(***************************************************************************)
FilterDirs == {<<"d1">>, <<"shared">>}

\* The `filters` tables declared: per directory no entry or one list.
FilterTables ==
  LET Lists == SeqsUpTo({"Linux", "Windows"}, MaxAllow)
      Entry == [FilterDirs -> {None} \cup {Some(l) : l \in Lists}]
  IN {{[dir |-> d, platforms |-> en[d][1]] : d \in {x \in FilterDirs : en[x] # None}} :
        en \in Entry}

MatchFileCalls ==
  {[fn |-> "match_file", self |-> [filters |-> F],
    arg |-> [file |-> f, platform |-> p]] :
     F \in FilterTables,
     f \in {<<"d1", "a.cpp">>, <<"d2", "a.cpp">>, <<"shared", "common.h">>},
     p \in {"Linux", "Windows", "Android"}}

InitMatchFile ==
  /\ call \in MatchFileCalls
  /\ ret = None
  /\ IdleMain
  /\ IdleSettings

CallMatchFile ==
  /\ UNCHANGED <<mvars, svars>>
  /\ call.fn = "match_file" /\ ret = None
  /\ ret' = Some(Returned(match_file(call.self, call.arg.file,
                                      call.arg.platform)))
  /\ UNCHANGED call

SpecMatchFile == InitMatchFile /\ [][CallMatchFile]_vars

\* The directory of the file has an entry that lists the platform.
ListedForDir(F, file, platform) ==
  \E e \in F : e.dir = parent(file) /\ contains(e.platforms, platform)

\* C26: match_file keeps a file for platform p unless the table has an
\* entry for the file's parent directory that lists p.
C26_MatchFileExcludesListed ==
  ret # None =>
    ret[1].value = ~ListedForDir(call.self.filters, call.arg.file,
                                 call.arg.platform)

\* What the calls do return: with an entry for the parent directory the
\* file is kept exactly for the platforms the entry lists.
C26_MatchFileKeepsListed ==
  ret # None =>
    LET hit == {e \in call.self.filters : e.dir = parent(call.arg.file)} IN
    ret[1].value = (hit = {} \/ ListedForDir(call.self.filters, call.arg.file,
                                              call.arg.platform))

\* A file whose directory lists the platform has been kept.
C26_ListedIsKept ==
  /\ ret = Some(Returned(TRUE))
  /\ ListedForDir(call.self.filters, call.arg.file, call.arg.platform)


(***************************************************************************)
(* The runs of the unix and of the windows build of the tool over the      *)
(* documents that declare A and B (B extends A).                           *)
(***************************************************************************)
InitBuilds ==
  /\ doc \in {Document(TRUE, Project(ver, FilterExtends)) : ver \in MinVersions}
  /\ first = None
  /\ target_os \in {"unix", "windows"}
  /\ ProcessStart
  /\ IdleSettings
  /\ IdleCalls

SpecBuilds == InitBuilds /\ [][Next]_vars

IsPrefix(s, t) == Len(s) <= Len(t) /\ s = SubSeq(t, 1, Len(s))

\* What the generators named in r would have written is still there.
OutputKept ==
  /\ cmake_out # <<>> => cmake_out' = cmake_out
  /\ gradle_out # <<>> => gradle_out' = gradle_out
  /\ vs_out.projs # <<>> => vs_out' = vs_out
  /\ xcode_out # NoXcodeOutput => xcode_out' = xcode_out

GenOrderStep ==
  /\ IsPrefix(ran', GeneratorOrder)
  /\ Len(ran') <= Len(ran) + 1
  /\ OutputKept
  /\ (cmd_name' = "gen" /\ pc' = "exit" /\ exit_code' = Some(0)) =>
       ran' = GeneratorOrder
  /\ (pc' = "exit" /\ exit_code' = Some(1) /\ ran' # <<>>) =>
       /\ diag' = [msg |-> "Failed to run command", name |-> "gen"]
       /\ gi' = Len(ran')
  /\ pc = "exit" => ran' = ran

\* C27: gen runs cmake, gradle, make, vs, xcode in this order, one per
\* step; a gen run that ends with exit code 0 has run all five; a
\* generator's error ends the run with exit code 1 right there, and what
\* earlier generators wrote stays.
C27_GenRunsAllInNameOrder == [][GenOrderStep]_vars

\* The same for the unix build alone.
C27_UnixRunsAllInNameOrder == [][target_os = "unix" => GenOrderStep]_vars

\* The windows build has finished gen with exit code 0 having run vs only.
C27_WindowsRunsVSOnly ==
  /\ target_os = "windows"
  /\ cmd_name = "gen" /\ pc = "exit" /\ exit_code = Some(0)
  /\ ran = <<"vs">>

\* The unix build has stopped at an error of gradle with cmake's output
\* in place.
C27_UnixStopsAtFirstError ==
  /\ target_os = "unix"
  /\ pc = "exit" /\ exit_code = Some(1)
  /\ ran = <<"cmake", "gradle">>
  /\ cmake_out # <<>>


(***************************************************************************)
(* The empty layer under Settings::merge (SpecSettings)                    *)
(***************************************************************************)
\* C28: merging with the empty layer on either side gives the other layer
\* back, field for field.
C28_EmptyLayerIsIdentity ==
  merged # None =>
    /\ fallback = DefaultSettings => merged[1] = primary
    /\ primary = DefaultSettings => merged[1] = fallback

\* The side that does hold: the empty layer as the fallback.
C28_EmptyFallbackIsIdentity ==
  (merged # None /\ fallback = DefaultSettings) => merged[1] = primary

\* With the empty layer as self, only undefs differs from the other layer:
\* it holds the other layer's defines.
C28_EmptyPrimaryTakesDefines ==
  (merged # None /\ primary = DefaultSettings) =>
    /\ merged[1].undefs = fallback.defines
    /\ [merged[1] EXCEPT !.undefs = fallback.undefs] = fallback

\* The empty layer has been merged over a layer with a define and no undef.
C28_DefineBecomesUndef ==
  /\ merged # None
  /\ primary = DefaultSettings
  /\ fallback.defines = <<"x">> /\ fallback.undefs = <<>>
  /\ merged[1].undefs = <<"x">>


(***************************************************************************)
(* Cycles in extends: the runs over the documents that declare A with     *)
(* extends [A], [B] or [A, B] and B with extends [] or [A]: a self-        *)
(* reference, the cycle A <-> B, and both at once. main() keeps running    *)
(* until the process ends.                                                 *)
(***************************************************************************)
CycleGraphs ==
  {<<a, b>> : a \in {<<"A">>, <<"B">>, <<"A", "B">>}, b \in {<<>>, <<"A">>}}

InitCycles ==
  /\ doc \in {Document(TRUE, Project("", g)) : g \in CycleGraphs}
  /\ first = None
  /\ target_os = "unix"
  /\ ProcessStart
  /\ IdleSettings
  /\ IdleCalls

SpecCycles == InitCycles /\ [][Next]_vars /\ WF_vars(Next)

\* Target k (in iteration order) names itself in its extends list.
NamesItself(k) == contains(values[k].extends, keys[k])

\* Targets j and k name each other.
NameEachOther(j, k) ==
  /\ j # k
  /\ contains(values[j].extends, keys[k])
  /\ contains(values[k].extends, keys[j])

CyclesAreHarmless ==
  /\ diag.msg # "No such target to extend"
  /\ extended # <<>> =>
       \A k \in 1..NumTargets :
         NamesItself(k) =>
           contains(extends[k], k - 1) /\ contains(extended[k], k - 1)
  /\ \A b \in 1..Len(cmake_out) :
       LET i == cmake_out[b].index IN
       Len(cmake_out[b].defines) =
         Len(get_target(i).settings.defines)
           + Len(Flatten([j \in 1..Len(extends[i + 1]) |->
                            get_target(extends[i + 1][j]).settings.defines]))
  /\ \A p \in 1..Len(vs_out.projs) :
       LET i == vs_out.projs[p].index IN
       Len(vs_out.projs[p].files) =
         Len(vs_write_files(i, get_target(i)))
           + Len(Flatten([j \in 1..Len(extends[i + 1]) |->
                            vs_write_files(extends[i + 1][j],
                                           get_target(extends[i + 1][j]))]))

\* C29: every run ends, also over a document whose extends lists hold a
\* self-reference or a cycle; on such a document extends resolution
\* reports no error, a target that names itself has its own index in its
\* extends and extended entries, and each CMakeLists.txt and vcxproj
\* holds the target's own entries and those of its direct extends, once
\* per extends entry.
C29_CyclesTerminate == []CyclesAreHarmless /\ <>(pc = "exit")

\* gen has completed over a document where two targets name each other
\* and one of them names itself as well.
C29_Witness ==
  /\ pc = "exit" /\ exit_code = Some(0)
  /\ ran = GeneratorOrder
  /\ \E j, k \in 1..NumTargets : NameEachOther(j, k)
  /\ \E k \in 1..NumTargets :
       NamesItself(k) /\ contains(extended[k], k - 1)
  /\ cmake_out # <<>> /\ vs_out.projs # <<>>


(***************************************************************************)
(* Xcode file groups: the runs over the documents that declare A and B     *)
(* (B extends A) with overlapping source patterns and either value of      *)
(* [project.xcode] group_by_target.                                        *)
(***************************************************************************)
InitXcode ==
  /\ doc \in
       {Document(TRUE,
          [Project("", FilterExtends) EXCEPT
             !.xcode.group_by_target = g,
             !.targets[1].sources = sp[1],
             !.targets[2].sources = sp[2]]) :
          g \in BOOLEAN,
          sp \in [1..2 -> {<<"**">>, <<"*.cpp">>, <<"**", "*.cpp">>,
                           <<"**", "shared/*">>, <<"shared/*", "shared/*">>}]}
  /\ first = None
  /\ target_os = "unix"
  /\ ProcessStart
  /\ IdleSettings
  /\ IdleCalls

SpecXcode == InitXcode /\ [][Next]_vars

Count(seq, x) == Cardinality({k \in DOMAIN seq : seq[k] = x})

\* The paths of the regular files of target k's source list (k-th in
\* iteration order), repeats included.
ListedPaths(k) ==
  LET t == sources[k] IN
  SelectSeqBy([j \in 1..Len(t) |-> t[j].path],
              [j \in 1..Len(t) |-> t[j].is_file])

AllListedPaths == Flatten([k \in 1..NumTargets |-> ListedPaths(k)])

Occurrences(path) == Count(AllListedPaths, path)

\* How many times a path is pushed, over all groups.
Placements(path) ==
  LET g == xcode_out.groups IN
  Count(g.main, path) + Count(g.shared, path)
    + Count(Flatten(g.by_target), path)

InOwnersGroup(path) ==
  \E k \in 1..NumTargets :
    /\ Count(ListedPaths(k), path) = 1
    /\ Count(xcode_out.groups.by_target[k], path) = 1

InSharedGroup(path) == Count(xcode_out.groups.shared, path) = 1

XcodeWritten == xcode_out # NoXcodeOutput

\* C30 as stated: every path is pushed once over all groups; a path that
\* occurs once is in the group of the target listing it, a path that
\* occurs two or more times is in the Shared group.
C30_OwnGroupOrShared ==
  XcodeWritten =>
    \A k \in 1..Len(AllListedPaths) :
      LET path == AllListedPaths[k] IN
      /\ Placements(path) = 1
      /\ Occurrences(path) = 1 => InOwnersGroup(path)
      /\ Occurrences(path) >= 2 => InSharedGroup(path)

\* C30, amended: every path is pushed once over all groups; with
\* group_by_target set, a path that occurs once is in the group of the
\* target listing it and a path that occurs two or more times is in the
\* Shared group; with group_by_target unset every path is in the main
\* group and the target groups and the Shared group hold nothing.
C30_OneGroupOnce ==
  XcodeWritten =>
    \A k \in 1..Len(AllListedPaths) :
      LET path == AllListedPaths[k] IN
      /\ Placements(path) = 1
      /\ IF ctx[1].project.xcode.group_by_target
           THEN /\ Occurrences(path) = 1 => InOwnersGroup(path)
                /\ Occurrences(path) >= 2 => InSharedGroup(path)
           ELSE Count(xcode_out.groups.main, path) = 1

\* An Xcode project has been written, grouped by target, from lists where
\* one path occurs three times, one occurs twice within a single target's
\* list, and one occurs once.
C30_Witness ==
  /\ XcodeWritten
  /\ ctx[1].project.xcode.group_by_target
  /\ \E k \in 1..Len(AllListedPaths) :
       /\ Occurrences(AllListedPaths[k]) = 3
       /\ InSharedGroup(AllListedPaths[k])
  /\ \E k \in 1..NumTargets : \E j \in 1..Len(ListedPaths(k)) :
       /\ Count(ListedPaths(k), ListedPaths(k)[j]) = 2
       /\ Occurrences(ListedPaths(k)[j]) = 2
  /\ \E k \in 1..Len(AllListedPaths) :
       /\ Occurrences(AllListedPaths[k]) = 1
       /\ InOwnersGroup(AllListedPaths[k])

\* An Xcode project has been written with group_by_target unset.
C30_Ungrouped ==
  /\ XcodeWritten
  /\ ~ctx[1].project.xcode.group_by_target
  /\ xcode_out.groups.main # <<>>

=============================================================================
